---- MODULE Spec2Model ----
(***************************************************************************)
(* Model of the internship filter/rank pipeline (src/filter.py), of the    *)
(* fetch stage (src/scraper.py) and of the page that shows the outcome     *)
(* (src/app.py).                                                           *)
(*                                                                         *)
(* A DataFrame is a record [columns, rows]; rows is a sequence of records, *)
(* one per posting, each carrying its index label.  DataFrame objects live *)
(* in a heap (frames) and are named by references, so that aliasing and    *)
(* in-place column assignment are observable.                              *)
(*                                                                         *)
(* Units: stipend and min_stipend are in tenths of a currency unit         *)
(* (2500 = 250.0), relevance_score is in tenths (85 = 8.5), days_old is    *)
(* in days, final_score is in hundredths (93 = 0.93).  Sub-scores are      *)
(* exact rationals [n, d] in lowest terms.                                 *)
(* A cell is [na |-> TRUE] (NaN / None) or [na |-> FALSE, v |-> value];    *)
(* text values are sequences of one-character strings.                     *)
(***************************************************************************)
EXTENDS Integers, Sequences, FiniteSets, TLC

VARIABLES pc, frames, internships, min_stipend, max_days_old, top_n,
          result, filtered, trace, prev, cur, ncalls,
          filter_engine,
          skills, queried, outcomes, all_internships, scraped, shown

\* The state of the filter/rank calls
filterVars == <<frames, internships, top_n, result, filtered, trace,
                prev, cur, ncalls>>

\* The state of the fetch stage and of the page that shows its outcome
scraperVars == <<skills, queried, outcomes, all_internships, scraped, shown>>

vars == <<pc, frames, internships, min_stipend, max_days_old, top_n,
          result, filtered, trace, prev, cur, ncalls,
          filter_engine,
          skills, queried, outcomes, all_internships, scraped, shown>>

----------------------------------------------------------------------------
(* Bounds of the model *)

MaxRows == 2

MaxCalls == 2

----------------------------------------------------------------------------
(* Cells *)

NaN == [na |-> TRUE]

Num(n) == [na |-> FALSE, v |-> n]

Txt(s) == [na |-> FALSE, v |-> s]

isna(c) == c.na

fillna(c, n) == IF isna(c) THEN Num(n) ELSE c

UNKNOWN == 999

----------------------------------------------------------------------------
(* Text: str.strip, str.lower, the `in` substring test *)

IsSpace(c) == c \in {" ", "\t", "\n"}

RECURSIVE lstrip(_)
lstrip(s) ==
    IF s = <<>> THEN <<>>
    ELSE IF IsSpace(Head(s)) THEN lstrip(Tail(s)) ELSE s

RECURSIVE rstrip(_)
rstrip(s) ==
    IF s = <<>> THEN <<>>
    ELSE IF IsSpace(s[Len(s)]) THEN rstrip(SubSeq(s, 1, Len(s) - 1)) ELSE s

strip(s) == rstrip(lstrip(s))

UpperCase ==
    <<"A","B","C","D","E","F","G","H","I","J","K","L","M","N","O","P","Q","R","S","T","U","V","W","X","Y","Z">>

LowerCase ==
    <<"a","b","c","d","e","f","g","h","i","j","k","l","m","n","o","p","q","r","s","t","u","v","w","x","y","z">>

LowerChar(c) ==
    IF \E i \in 1..Len(UpperCase) : UpperCase[i] = c
    THEN LowerCase[CHOOSE i \in 1..Len(UpperCase) : UpperCase[i] = c]
    ELSE c

RECURSIVE lower(_)
lower(s) ==
    IF s = <<>> THEN <<>> ELSE <<LowerChar(Head(s))>> \o lower(Tail(s))

IsSubstr(p, s) ==
    \E i \in 0..(Len(s) - Len(p)) : SubSeq(s, i + 1, i + Len(p)) = p

----------------------------------------------------------------------------
(* Exact rationals for the scores *)

RECURSIVE GCD(_, _)
GCD(a, b) == IF b = 0 THEN a ELSE GCD(b, a % b)

Abs(x) == IF x < 0 THEN -x ELSE x

Q(n, d) ==
    LET g == GCD(Abs(n), d)
    IN  [n |-> n \div g, d |-> d \div g]

QAdd(x, y) == Q(x.n * y.d + y.n * x.d, x.d * y.d)

QMul(x, y) == Q(x.n * y.n, x.d * y.d)

QLe(x, y) == x.n * y.d <= y.n * x.d

clip(x, lo, hi) == IF QLe(x, lo) THEN lo ELSE IF QLe(hi, x) THEN hi ELSE x

Zero == Q(0, 1)

One == Q(1, 1)

\* Series.round(2): nearest hundredth, ties to the even hundredth
round2(x) ==
    LET h == (100 * x.n) \div x.d
        r == (100 * x.n) % x.d
    IN  IF 2 * r < x.d THEN h
        ELSE IF 2 * r > x.d THEN h + 1
        ELSE IF h % 2 = 0 THEN h ELSE h + 1

----------------------------------------------------------------------------
(* DataFrames *)

BaseColumns ==
    {"title", "company", "stipend", "days_old", "relevance_score", "apply_url"}

ScoreColumns ==
    {"relevance_normalized", "stipend_normalized", "recency_normalized",
     "company_reputation_normalized", "final_score"}

\* pd.DataFrame()
EmptyFrame == [columns |-> {}, rows |-> <<>>]

empty(f) == f.rows = <<>>

withRows(f, rows) == [columns |-> f.columns, rows |-> rows]

----------------------------------------------------------------------------
(* InternshipFilter._apply_filters, one operator per step *)

RelevanceFloor == 1

\* df[df['stipend'] >= min_stipend], only when min_stipend > 0
StipendFilter(rows, ms) ==
    IF ms > 0
    THEN SelectSeq(rows, LAMBDA r : ~isna(r.stipend) /\ r.stipend.v >= ms)
    ELSE rows

\* Variant of the age step without the unknown-age disjunct
AgeFilter_drops_unknown(rows, md) ==
    IF md < UNKNOWN
    THEN SelectSeq(rows, LAMBDA r :
             ~isna(r.days_old) /\ r.days_old.v <= md)
    ELSE rows

\* df[(df['days_old'] <= max_days_old) | (df['days_old'] == 999)],
\* only when max_days_old < 999
AgeFilter(rows, md) ==
    IF md < UNKNOWN
    THEN SelectSeq(rows, LAMBDA r :
             \/ (~isna(r.days_old) /\ r.days_old.v <= md)
             \/ (~isna(r.days_old) /\ r.days_old.v = UNKNOWN))
    ELSE rows

\* df.dropna(subset=[...])
dropna(rows, subset) ==
    SelectSeq(rows, LAMBDA r : \A c \in subset : ~isna(r[c]))

\* Series.astype(str)
astype_str(c) == IF isna(c) THEN <<"n", "a", "n">> ELSE c.v

\* Variant of the apply_url step without str.strip()
UrlFilter_no_strip(rows) ==
    SelectSeq(rows, LAMBDA r : astype_str(r.apply_url) # <<>>)

\* df[df['apply_url'].astype(str).str.strip() != '']
UrlFilter(rows) ==
    SelectSeq(rows, LAMBDA r : strip(astype_str(r.apply_url)) # <<>>)

RECURSIVE RelevanceSum(_)
RelevanceSum(rows) ==
    IF rows = <<>> THEN 0
    ELSE fillna(Head(rows).relevance_score, 0).v + RelevanceSum(Tail(rows))

\* Variant of the relevance step with a floor relative to the collection
RelevanceFilter_above_mean(rows) ==
    SelectSeq(rows, LAMBDA r :
        fillna(r.relevance_score, 0).v * Len(rows) > RelevanceSum(rows))

\* df[df['relevance_score'].fillna(0) >= 0.1]
RelevanceFilter(rows) ==
    SelectSeq(rows, LAMBDA r : fillna(r.relevance_score, 0).v >= RelevanceFloor)

\* The value of the local df after each step of _apply_filters; the last
\* one is the frame returned.
FilterStages(rows, ms, md) ==
    LET s1 == StipendFilter(rows, ms)
        s2 == AgeFilter(s1, md)
        s3 == dropna(s2, {"title", "company", "apply_url"})
        s4 == UrlFilter(s3)
        s5 == RelevanceFilter(s4)
    IN  <<rows, s1, s2, s3, s4, s5>>

_apply_filters(f, ms, md) ==
    LET st == FilterStages(f.rows, ms, md)
    IN  withRows(f, st[Len(st)])

----------------------------------------------------------------------------
(* InternshipFilter.__init__ *)

\* Variant of the weights with those of relevance and stipend exchanged
weights_swapped ==
    [relevance_score    |-> Q(3, 10),
     stipend            |-> Q(4, 10),
     recency            |-> Q(2, 10),
     company_reputation |-> Q(1, 10)]

weights ==
    [relevance_score    |-> Q(4, 10),
     stipend            |-> Q(3, 10),
     recency            |-> Q(2, 10),
     company_reputation |-> Q(1, 10)]

prestigious_companies == {
    <<"g","o","o","g","l","e">>, <<"m","i","c","r","o","s","o","f","t">>,
    <<"a","p","p","l","e">>, <<"a","m","a","z","o","n">>,
    <<"m","e","t","a">>, <<"f","a","c","e","b","o","o","k">>,
    <<"n","e","t","f","l","i","x">>, <<"u","b","e","r">>,
    <<"a","i","r","b","n","b">>, <<"s","p","o","t","i","f","y">>,
    <<"t","w","i","t","t","e","r">>, <<"l","i","n","k","e","d","i","n">>,
    <<"s","a","l","e","s","f","o","r","c","e">>, <<"o","r","a","c","l","e">>,
    <<"i","b","m">>, <<"i","n","t","e","l">>,
    <<"n","v","i","d","i","a">>, <<"t","e","s","l","a">>,
    <<"s","p","a","c","e","x">>, <<"p","a","l","a","n","t","i","r">>,
    <<"s","t","r","i","p","e">>, <<"s","q","u","a","r","e">>,
    <<"p","a","y","p","a","l">>, <<"v","i","s","a">>,
    <<"m","a","s","t","e","r","c","a","r","d">>,
    <<"g","o","l","d","m","a","n"," ","s","a","c","h","s">>,
    <<"m","o","r","g","a","n"," ","s","t","a","n","l","e","y">>,
    <<"j","p","m","o","r","g","a","n">>,
    <<"m","c","k","i","n","s","e","y">>, <<"b","a","i","n">>,
    <<"b","c","g">>, <<"d","e","l","o","i","t","t","e">>,
    <<"p","w","c">>, <<"k","p","m","g">>,
    <<"a","c","c","e","n","t","u","r","e">>, <<"c","o","g","n","i","z","a","n","t">>,
    <<"i","n","f","o","s","y","s">>, <<"t","c","s">>,
    <<"w","i","p","r","o">> }

startup_indicators == {
    <<"i","n","c">>, <<"l","l","c">>, <<"c","o","r","p">>, <<"l","t","d">>,
    <<"s","t","a","r","t","u","p">>, <<"t","e","c","h">>,
    <<"s","o","f","t","w","a","r","e">> }

----------------------------------------------------------------------------
(* Scoring *)

\* Variant of the recency score that fills a missing age with 0
_calculate_recency_score_missing_as_new(days_old) ==
    LET d1 == fillna(days_old, 0).v
        d2 == IF d1 = UNKNOWN THEN 30 ELSE d1
    IN  clip(Q(30 - d2, 30), Zero, One)

\* Variant of the recency score without np.clip
_calculate_recency_score_no_clip(days_old) ==
    LET d1 == fillna(days_old, UNKNOWN).v
        d2 == IF d1 = UNKNOWN THEN 30 ELSE d1
    IN  Q(30 - d2, 30)

\* fillna(999), replace(999, 30), clip(1 - days/30, 0, 1)
_calculate_recency_score(days_old) ==
    LET d1 == fillna(days_old, UNKNOWN).v
        d2 == IF d1 = UNKNOWN THEN 30 ELSE d1
    IN  clip(Q(30 - d2, 30), Zero, One)

\* Variant of the reputation score without .lower()
_calculate_company_reputation_no_lower(company_name) ==
    IF isna(company_name) THEN Zero
    ELSE LET company_str == strip(company_name.v)
         IN  IF company_str = <<>> THEN Zero
             ELSE IF \E p \in prestigious_companies : IsSubstr(p, company_str)
                  THEN One
             ELSE IF \E i \in startup_indicators : IsSubstr(i, company_str)
                  THEN Q(5, 10)
             ELSE Q(3, 10)

\* str(company_name).lower().strip(), then the allow-list, then the
\* corporate-entity tokens, then the default
_calculate_company_reputation(company_name) ==
    IF isna(company_name) THEN Zero
    ELSE LET company_str == strip(lower(company_name.v))
         IN  IF company_str = <<>> THEN Zero
             ELSE IF \E p \in prestigious_companies : IsSubstr(p, company_str)
                  THEN One
             ELSE IF \E i \in startup_indicators : IsSubstr(i, company_str)
                  THEN Q(5, 10)
             ELSE Q(3, 10)

RECURSIVE SeqMax(_)
SeqMax(s) ==
    IF Len(s) = 1 THEN s[1]
    ELSE LET m == SeqMax(Tail(s)) IN IF s[1] >= m THEN s[1] ELSE m

\* df['stipend'] = df['stipend'].fillna(0)
RECURSIVE FillStipend(_)
FillStipend(rows) ==
    IF rows = <<>> THEN <<>>
    ELSE <<[Head(rows) EXCEPT !.stipend = fillna(@, 0)]>>
         \o FillStipend(Tail(rows))

RECURSIVE StipendColumn(_)
StipendColumn(rows) ==
    IF rows = <<>> THEN <<>>
    ELSE <<Head(rows).stipend.v>> \o StipendColumn(Tail(rows))

\* Variant of the score columns with the stipend normalised on a fixed
\* scale of 5000 a month
ScoreRow_absolute_scale(r, max_stipend) ==
    LET rel == Q(fillna(r.relevance_score, 0).v, 100)
        stp == clip(Q(r.stipend.v, 50000), Zero, One)
        rec == _calculate_recency_score(r.days_old)
        rep == _calculate_company_reputation(r.company)
        fin == QAdd(QAdd(QAdd(QMul(rel, filter_engine.weights.relevance_score),
                              QMul(stp, filter_engine.weights.stipend)),
                         QMul(rec, filter_engine.weights.recency)),
                    QMul(rep, filter_engine.weights.company_reputation))
    IN  [relevance_normalized          |-> rel,
         stipend_normalized            |-> stp,
         recency_normalized            |-> rec,
         company_reputation_normalized |-> rep,
         final_score                   |-> round2(fin)] @@ r

\* The score columns of one row
ScoreRow(r, max_stipend) ==
    LET rel == Q(fillna(r.relevance_score, 0).v, 100)
        stp == IF max_stipend > 0
               THEN clip(Q(r.stipend.v, max_stipend), Zero, One)
               ELSE Zero
        rec == _calculate_recency_score(r.days_old)
        rep == _calculate_company_reputation(r.company)
        fin == QAdd(QAdd(QAdd(QMul(rel, filter_engine.weights.relevance_score),
                              QMul(stp, filter_engine.weights.stipend)),
                         QMul(rec, filter_engine.weights.recency)),
                    QMul(rep, filter_engine.weights.company_reputation))
    IN  [relevance_normalized          |-> rel,
         stipend_normalized            |-> stp,
         recency_normalized            |-> rec,
         company_reputation_normalized |-> rep,
         final_score                   |-> round2(fin)] @@ r

RECURSIVE ScoreRows(_, _)
ScoreRows(rows, max_stipend) ==
    IF rows = <<>> THEN <<>>
    ELSE <<ScoreRow(Head(rows), max_stipend)>>
         \o ScoreRows(Tail(rows), max_stipend)

\* Assigns the score columns to the frame it is given (in place) and
\* returns it; stipend NaN is replaced by 0 in that frame.  Called on a
\* frame with at least one row.
_calculate_ranking_scores(f) ==
    LET filled == FillStipend(f.rows)
        max_stipend == SeqMax(StipendColumn(filled))
    IN  [columns |-> f.columns \cup ScoreColumns,
         rows    |-> ScoreRows(filled, max_stipend)]

----------------------------------------------------------------------------
(* Sorting and truncation *)

Reverse(s) == [i \in 1..Len(s) |-> s[Len(s) + 1 - i]]

\* ndarray.argsort(kind='quicksort'): the index arrays that put the items
\* in non-decreasing order.  quicksort is not a stable sort, so the order
\* among equal items is whatever the sorting routine of the build yields.
argsort(items) ==
    {p \in Permutations(1..Len(items)) :
        \A i \in 1..(Len(items) - 1) : items[p[i]] <= items[p[i + 1]]}

\* pandas nargsort: for a descending sort the items and their positions
\* are reversed, sorted ascending, and the indexer is reversed again
nargsort(items, ascending) ==
    LET idx == [i \in 1..Len(items) |-> i]
        its == IF ascending THEN items ELSE Reverse(items)
        ix  == IF ascending THEN idx ELSE Reverse(idx)
    IN  {IF ascending THEN [i \in 1..Len(items) |-> ix[p[i]]]
                      ELSE Reverse([i \in 1..Len(items) |-> ix[p[i]]]) :
            p \in argsort(its)}

RECURSIVE FinalScoreColumn(_)
FinalScoreColumn(rows) ==
    IF rows = <<>> THEN <<>>
    ELSE <<Head(rows).final_score>> \o FinalScoreColumn(Tail(rows))

take(f, indexer) ==
    withRows(f, [i \in 1..Len(indexer) |-> f.rows[indexer[i]]])

\* Variant of the sort with ascending=True
sort_values_ascending(f) ==
    {take(f, indexer) : indexer \in nargsort(FinalScoreColumn(f.rows), TRUE)}

\* df.sort_values('final_score', ascending=False): the frames the call
\* can return
sort_values(f) ==
    {take(f, indexer) : indexer \in nargsort(FinalScoreColumn(f.rows), FALSE)}

\* Variant of head() that keeps one row more
head_one_more(f, n) ==
    LET len == Len(f.rows)
        k == IF n >= 0
             THEN (IF n + 1 < len THEN n + 1 ELSE len)
             ELSE (IF len + n > 0 THEN len + n ELSE 0)
    IN  withRows(f, SubSeq(f.rows, 1, k))

\* df.head(n): the first n rows; for negative n, all but the last -n rows
head(f, n) ==
    LET len == Len(f.rows)
        k == IF n >= 0
             THEN (IF n < len THEN n ELSE len)
             ELSE (IF len + n > 0 THEN len + n ELSE 0)
    IN  withRows(f, SubSeq(f.rows, 1, k))

----------------------------------------------------------------------------
(* InternshipFilter.filter_and_rank on the heap of DataFrame objects *)

\* DataFrame.copy(): a new object with the same content
copy(h, r) == [heap |-> Append(h, h[r]), ref |-> Len(h) + 1]

\* Variant of filter_and_rank that takes no copy and assigns the score
\* columns to the caller's frame before filtering
filter_and_rank_scores_input(h, r, ms, md, tn) ==
    IF empty(h[r])
    THEN {[heap |-> Append(h, EmptyFrame), result |-> Len(h) + 1,
           filtered |-> 0, trace |-> <<>>]}
    ELSE
      LET h1 == [h EXCEPT ![r] = _calculate_ranking_scores(h[r])]
          st == FilterStages(h1[r].rows, ms, md)
          h2 == Append(h1, _apply_filters(h1[r], ms, md))
          d  == Len(h2)
      IN  IF empty(h2[d])
          THEN {[heap |-> Append(h2, EmptyFrame), result |-> d + 1,
                 filtered |-> d, trace |-> st]}
          ELSE {[heap |-> h2 \o <<s, head(s, tn)>>, result |-> d + 2,
                 filtered |-> d, trace |-> st] : s \in sort_values(h2[d])}

\* The outcomes of one call: the heap after the call, the reference
\* returned, the reference of the frame _apply_filters returned (0 when it
\* was not called) and the stages of _apply_filters.
filter_and_rank(h, r, ms, md, tn) ==
    IF empty(h[r])
    THEN {[heap |-> Append(h, EmptyFrame), result |-> Len(h) + 1,
           filtered |-> 0, trace |-> <<>>]}
    ELSE
      LET c  == copy(h, r)
          st == FilterStages(c.heap[c.ref].rows, ms, md)
          h2 == Append(c.heap, _apply_filters(c.heap[c.ref], ms, md))
          d  == Len(h2)
      IN  IF empty(h2[d])
          THEN {[heap |-> Append(h2, EmptyFrame), result |-> d + 1,
                 filtered |-> d, trace |-> st]}
          ELSE
            LET h3 == [h2 EXCEPT ![d] = _calculate_ranking_scores(h2[d])]
            IN  {[heap |-> h3 \o <<s, head(s, tn)>>, result |-> d + 2,
                  filtered |-> d, trace |-> st] : s \in sort_values(h3[d])}

----------------------------------------------------------------------------
(* Inputs *)

PythonIntern == <<"P","y","t","h","o","n"," ","I","n","t","e","r","n">>

DataIntern == <<"D","a","t","a"," ","I","n","t","e","r","n">>

Google == <<"G","o","o","g","l","e">>

StartupInc == <<"S","t","a","r","t","u","p"," ","I","n","c">>

Acme == <<"A","c","m","e">>

Url == <<"h","t","t","p",":","/","/","a">>

\* The two postings of the worked example (compensation 250 and 166.7,
\* age 1 and 5, relevance 8.5 and 7.2), given an apply_url
GooglePosting ==
    [title |-> Txt(PythonIntern), company |-> Txt(Google),
     stipend |-> Num(2500), days_old |-> Num(1),
     relevance_score |-> Num(85), apply_url |-> Txt(Url)]

StartupPosting ==
    [title |-> Txt(DataIntern), company |-> Txt(StartupInc),
     stipend |-> Num(1667), days_old |-> Num(5),
     relevance_score |-> Num(72), apply_url |-> Txt(Url)]

\* The postings that differ from p in one field
Variants(p) ==
    {[p EXCEPT !.title = t] : t \in {NaN, Txt(<<>>)}}
    \cup {[p EXCEPT !.company = c] : c \in {NaN, Txt(<<>>), Txt(Acme)}}
    \cup {[p EXCEPT !.apply_url = u] :
            u \in {NaN, Txt(<<>>), Txt(<<" ">>), Txt(<<" ">> \o Url)}}
    \cup {[p EXCEPT !.stipend = x] : x \in {NaN, Num(0)}}
    \cup {[p EXCEPT !.days_old = d] : d \in {NaN, Num(UNKNOWN), Num(45)}}
    \cup {[p EXCEPT !.relevance_score = x] : x \in {NaN, Num(0), Num(120)}}

Postings == {GooglePosting, StartupPosting} \cup Variants(GooglePosting)

MinStipends == {0, 2000}

MaxDaysOlds == {7, 999, 1000}

TopNs == {-1, 0, 1, 5}

\* The frames of at most MaxRows postings; the index label of a row is its
\* position, from 0
InputFrames ==
    {[columns |-> BaseColumns,
      rows    |-> [i \in DOMAIN ps |-> [index |-> i - 1] @@ ps[i]]] :
        ps \in UNION {[1..k -> Postings] : k \in 0..MaxRows}}

----------------------------------------------------------------------------
(* The state machine: a caller holding one posting collection either calls
   filter_and_rank on it, or calls _apply_filters on it and then again on
   what it returned. *)

Init ==
    /\ pc = "start"
    /\ \E f \in InputFrames : frames = <<f>>
    /\ internships = 1
    /\ min_stipend \in MinStipends
    /\ max_days_old \in MaxDaysOlds
    /\ top_n \in TopNs
    /\ result = 0
    /\ filtered = 0
    /\ trace = <<>>
    /\ prev = 0
    /\ cur = 0
    /\ ncalls = 0
    /\ filter_engine = [weights |-> weights]
    /\ skills = <<>>
    /\ queried = <<>>
    /\ outcomes = <<>>
    /\ all_internships = <<>>
    /\ scraped = EmptyFrame
    /\ shown = "nothing"

FilterAndRank ==
    /\ pc = "start"
    /\ \E o \in filter_and_rank(frames, internships, min_stipend,
                                max_days_old, top_n) :
          /\ frames' = o.heap
          /\ result' = o.result
          /\ filtered' = o.filtered
          /\ trace' = o.trace
    /\ pc' = "ranked"
    /\ UNCHANGED <<internships, min_stipend, max_days_old, top_n,
                   prev, cur, ncalls, filter_engine, scraperVars>>

ApplyFilters ==
    /\ pc \in {"start", "filtered"}
    /\ ncalls < MaxCalls
    /\ LET arg == IF pc = "start" THEN internships ELSE cur
       IN  /\ frames' = Append(frames,
                           _apply_filters(frames[arg], min_stipend, max_days_old))
           /\ trace' = FilterStages(frames[arg].rows, min_stipend, max_days_old)
           /\ prev' = arg
    /\ cur' = Len(frames) + 1
    /\ ncalls' = ncalls + 1
    /\ pc' = "filtered"
    /\ UNCHANGED <<internships, min_stipend, max_days_old, top_n,
                   result, filtered, filter_engine, scraperVars>>

Next == FilterAndRank \/ ApplyFilters

Spec == Init /\ [][Next]_vars

----------------------------------------------------------------------------
(* InternshipScraper (src/scraper.py).  In the frames of the scraper the
   stipend is an exact rational in currency units and relevance_score is in
   hundredths (333 = 3.33); date_posted is the number of days between the
   posting date and now. *)

\* InternshipScraper.__init__
internship_keywords == <<
    <<"i","n","t","e","r","n">>,
    <<"i","n","t","e","r","n","s","h","i","p">>,
    <<"c","o","-","o","p">>,
    <<"c","o","o","p">>,
    <<"t","r","a","i","n","e","e">>,
    <<"a","p","p","r","e","n","t","i","c","e">>,
    <<"e","n","t","r","y"," ","l","e","v","e","l">>,
    <<"j","u","n","i","o","r">>,
    <<"g","r","a","d","u","a","t","e">>,
    <<"s","t","u","d","e","n","t">>,
    <<"s","u","m","m","e","r"," ","i","n","t","e","r","n">> >>

senior_words == {
    <<"s","e","n","i","o","r">>,
    <<"l","e","a","d">>,
    <<"p","r","i","n","c","i","p","a","l">>,
    <<"m","a","n","a","g","e","r">>,
    <<"d","i","r","e","c","t","o","r">> }

\* str(value): the text itself, 'nan' for a missing value
str(c) == IF isna(c) THEN <<"n", "a", "n">> ELSE c.v

StartsWith(s, i, p) ==
    /\ i >= 1
    /\ i + Len(p) - 1 <= Len(s)
    /\ SubSeq(s, i, i + Len(p) - 1) = p

IsDigit(c) == c \in {"0", "1", "2", "3", "4", "5", "6", "7", "8", "9"}

\* \d{k} at position i
DigitRun(s, i, k) ==
    /\ i + k - 1 <= Len(s)
    /\ \A j \in i..(i + k - 1) : IsDigit(s[j])

\* The number of groups (?:,\d{3}) that follow position p - 1
RECURSIVE CommaGroups(_, _)
CommaGroups(s, p) ==
    IF p <= Len(s) /\ s[p] = "," /\ DigitRun(s, p + 1, 3)
    THEN 1 + CommaGroups(s, p + 4)
    ELSE 0

\* (?:\.\d{2})? at position p: the positions where the match can end, the
\* longer first
DecimalEnds(s, p) ==
    IF p <= Len(s) /\ s[p] = "." /\ DigitRun(s, p + 1, 2)
    THEN <<p + 3, p>>
    ELSE <<p>>

\* (?:,\d{3})*(?:\.\d{2})? from position p with at most g groups, the
\* greedy choice first
RECURSIVE GroupEnds(_, _, _)
GroupEnds(s, p, g) ==
    IF g < 0 THEN <<>>
    ELSE DecimalEnds(s, p + 4 * g) \o GroupEnds(s, p, g - 1)

\* \d{1,3}(?:,\d{3})*(?:\.\d{2})? at position i with at most d leading
\* digits: the positions just after each way the number can match, in the
\* order the regex engine tries them
RECURSIVE NumberEnds(_, _, _)
NumberEnds(s, i, d) ==
    IF d = 0 THEN <<>>
    ELSE (IF DigitRun(s, i, d)
          THEN GroupEnds(s, i + d, CommaGroups(s, i + d))
          ELSE <<>>)
         \o NumberEnds(s, i, d - 1)

\* \s* from position i: the position of the first character that is no
\* white space
RECURSIVE SkipSpaces(_, _)
SkipSpaces(s, i) ==
    IF i <= Len(s) /\ IsSpace(s[i]) THEN SkipSpaces(s, i + 1) ELSE i

\* \s*(?:per\s+)?(?:unit1|unit2|...) at position e
RateSuffix(s, e, units) ==
    LET j == SkipSpaces(s, e)
        per == <<"p", "e", "r">>
    IN  \/ \E u \in units : StartsWith(s, j, u)
        \/ /\ StartsWith(s, j, per)
           /\ j + 3 <= Len(s)
           /\ IsSpace(s[j + 3])
           /\ \E u \in units : StartsWith(s, SkipSpaces(s, j + 3), u)

HourUnits == {<<"h","o","u","r">>, <<"h","r">>, <<"/","h">>}

MonthUnits == {<<"m","o","n","t","h">>, <<"m","o">>}

\* The text captured by a salary pattern at position i, <<>> when the
\* pattern does not match there.  Pattern 1 is \$(number), pattern 2 is
\* (number)\s*(?:per\s+)?(?:hour|hr|/h), pattern 3 is
\* (number)\s*(?:per\s+)?(?:month|mo).
RECURSIVE FirstEnd(_, _, _)
FirstEnd(s, ends, units) ==
    IF ends = <<>> THEN 0
    ELSE IF RateSuffix(s, Head(ends), units) THEN Head(ends)
    ELSE FirstEnd(s, Tail(ends), units)

MatchAt(pattern, s, i) ==
    IF pattern = 1
    THEN IF s[i] = "$" /\ NumberEnds(s, i + 1, 3) # <<>>
         THEN SubSeq(s, i + 1, NumberEnds(s, i + 1, 3)[1] - 1)
         ELSE <<>>
    ELSE LET e == FirstEnd(s, NumberEnds(s, i, 3),
                           IF pattern = 2 THEN HourUnits ELSE MonthUnits)
         IN  IF e = 0 THEN <<>> ELSE SubSeq(s, i, e - 1)

\* re.findall(pattern, s)[0]: the capture of the leftmost match from
\* position i on, <<>> when there is no match
RECURSIVE FirstMatch(_, _, _)
FirstMatch(pattern, s, i) ==
    IF i > Len(s) THEN <<>>
    ELSE IF MatchAt(pattern, s, i) # <<>> THEN MatchAt(pattern, s, i)
    ELSE FirstMatch(pattern, s, i + 1)

DigitValue(c) ==
    CASE c = "0" -> 0 [] c = "1" -> 1 [] c = "2" -> 2 [] c = "3" -> 3
      [] c = "4" -> 4 [] c = "5" -> 5 [] c = "6" -> 6 [] c = "7" -> 7
      [] c = "8" -> 8 [] c = "9" -> 9

\* The integer written by the digits of t, other characters skipped
RECURSIVE DigitsValue(_, _)
DigitsValue(t, acc) ==
    IF t = <<>> THEN acc
    ELSE IF IsDigit(Head(t)) THEN DigitsValue(Tail(t), 10 * acc + DigitValue(Head(t)))
    ELSE DigitsValue(Tail(t), acc)

\* float(amount_str.replace(',', '')) for a captured number
ParseAmount(t) ==
    IF Len(t) >= 3 /\ t[Len(t) - 2] = "."
    THEN Q(DigitsValue(t, 0), 100)
    ELSE Q(DigitsValue(t, 0), 1)

\* The amount _extract_stipend returns once a pattern has matched
ConvertAmount(amount, description) ==
    LET a1 == IF \/ IsSubstr(<<"h","o","u","r">>, description)
                 \/ IsSubstr(<<"h","r">>, description)
                 \/ IsSubstr(<<"/","h">>, description)
              THEN QMul(amount, Q(160, 1)) ELSE amount
        a2 == IF \/ IsSubstr(<<"m","o","n","t","h">>, description)
                 \/ IsSubstr(<<"m","o">>, description)
              THEN QMul(a1, Q(12, 1)) ELSE a1
    IN  QMul(a2, Q(1, 12))

_extract_stipend(row) ==
    LET description == lower(str(row.description))
        title == lower(str(row.title))
        text == description \o <<" ">> \o title
        m1 == FirstMatch(1, text, 1)
        m2 == FirstMatch(2, text, 1)
        m3 == FirstMatch(3, text, 1)
    IN  IF m1 # <<>> THEN ConvertAmount(ParseAmount(m1), description)
        ELSE IF m2 # <<>> THEN ConvertAmount(ParseAmount(m2), description)
        ELSE IF m3 # <<>> THEN ConvertAmount(ParseAmount(m3), description)
        ELSE Zero

\* max(0, (now - date_posted).days), 999 for a missing date
_calculate_days_old(row) ==
    IF isna(row.date_posted) THEN UNKNOWN
    ELSE IF row.date_posted.v > 0 THEN row.date_posted.v ELSE 0

\* The number of the given words that occur in the text
RECURSIVE CountIn(_, _)
CountIn(words, text) ==
    IF words = <<>> THEN 0
    ELSE (IF IsSubstr(Head(words), text) THEN 1 ELSE 0)
         + CountIn(Tail(words), text)

RECURSIVE LowerAll(_)
LowerAll(words) ==
    IF words = <<>> THEN <<>>
    ELSE <<lower(Head(words))>> \o LowerAll(Tail(words))

QMin(x, y) == IF QLe(x, y) THEN x ELSE y

\* Variant of _calculate_relevance_score without the cap min(10.0, ...)
_calculate_relevance_score_uncapped(row, user_skills) ==
    LET title == lower(str(row.title))
        description == lower(str(row.description))
        company == lower(str(row.company))
        text == title \o <<" ">> \o description \o <<" ">> \o company
        skill_matches == CountIn(LowerAll(user_skills), text)
        base_score == Q(skill_matches * 10, Len(user_skills))
        title_bonus == Q(CountIn(LowerAll(user_skills), title), 1)
        internship_bonus == Q(CountIn(internship_keywords, title), 2)
    IN  round2(QAdd(QAdd(base_score, title_bonus), internship_bonus))

\* The score in hundredths
_calculate_relevance_score(row, user_skills) ==
    LET title == lower(str(row.title))
        description == lower(str(row.description))
        company == lower(str(row.company))
        text == title \o <<" ">> \o description \o <<" ">> \o company
        skill_matches == CountIn(LowerAll(user_skills), text)
        base_score == Q(skill_matches * 10, Len(user_skills))
        title_bonus == Q(CountIn(LowerAll(user_skills), title), 1)
        internship_bonus == Q(CountIn(internship_keywords, title), 2)
        final_score == QMin(Q(10, 1),
                            QAdd(QAdd(base_score, title_bonus), internship_bonus))
    IN  round2(final_score)

UnknownCompany == <<"U","n","k","n","o","w","n"," ","C","o","m","p","a","n","y">>

UnknownTitle == <<"U","n","k","n","o","w","n"," ","T","i","t","l","e">>

NotSpecified == <<"N","o","t"," ","s","p","e","c","i","f","i","e","d">>

ScraperColumns ==
    {"title", "company", "location", "description", "apply_url",
     "stipend", "days_old", "relevance_score"}

\* fillna(default) followed by str.strip()
CleanText(c, default) == Txt(strip(IF isna(c) THEN default ELSE c.v))

\* _clean_and_enhance_data on the row with index label label
CleanRow(job, label, user_skills) ==
    LET row == [job EXCEPT !.company = CleanText(@, UnknownCompany),
                           !.title = CleanText(@, UnknownTitle),
                           !.location = CleanText(@, NotSpecified)]
    IN  [index           |-> label,
         title           |-> row.title,
         company         |-> row.company,
         location        |-> row.location,
         description     |-> row.description,
         apply_url       |-> row.job_url,
         stipend         |-> Num(_extract_stipend(row)),
         days_old        |-> Num(_calculate_days_old(row)),
         relevance_score |-> Num(_calculate_relevance_score(row, user_skills))]

RECURSIVE CleanRows(_, _, _)
CleanRows(jobs, label, user_skills) ==
    IF jobs = <<>> THEN <<>>
    ELSE <<CleanRow(Head(jobs), label, user_skills)>>
         \o CleanRows(Tail(jobs), label + 1, user_skills)

\* pd.DataFrame(all_internships) passed through _clean_and_enhance_data
_clean_and_enhance_data(jobs, user_skills) ==
    [columns |-> ScraperColumns, rows |-> CleanRows(jobs, 0, user_skills)]

DuplicateKey(r) == <<r.title, r.company, r.location>>

\* Variant of drop_duplicates with keep='last'
drop_duplicates_keep_last(f) ==
    LET rows == f.rows
        keep == {i \in 1..Len(rows) :
                    \A j \in (i + 1)..Len(rows) :
                        DuplicateKey(rows[j]) # DuplicateKey(rows[i])}
        RECURSIVE Kept(_)
        Kept(i) == IF i > Len(rows) THEN <<>>
                   ELSE (IF i \in keep THEN <<rows[i]>> ELSE <<>>) \o Kept(i + 1)
    IN  withRows(f, Kept(1))

\* df.drop_duplicates(subset=['title', 'company', 'location'], keep='first')
drop_duplicates(f) ==
    LET rows == f.rows
        keep == {i \in 1..Len(rows) :
                    \A j \in 1..(i - 1) :
                        DuplicateKey(rows[j]) # DuplicateKey(rows[i])}
        RECURSIVE Kept(_)
        Kept(i) == IF i > Len(rows) THEN <<>>
                   ELSE (IF i \in keep THEN <<rows[i]>> ELSE <<>>) \o Kept(i + 1)
    IN  withRows(f, Kept(1))

\* f"{skill} {keyword}" for the first three internship keywords
SkillTerms(skill) ==
    << skill \o <<" ">> \o internship_keywords[1],
       skill \o <<" ">> \o internship_keywords[2],
       skill \o <<" ">> \o internship_keywords[3] >>

RECURSIVE AllSkillTerms(_)
AllSkillTerms(ss) ==
    IF ss = <<>> THEN <<>> ELSE SkillTerms(Head(ss)) \o AllSkillTerms(Tail(ss))

\* " ".join(words)
RECURSIVE Join(_)
Join(words) ==
    IF words = <<>> THEN <<>>
    ELSE IF Len(words) = 1 THEN Head(words)
    ELSE Head(words) \o <<" ">> \o Join(Tail(words))

\* s[:n]
Slice(s, n) == SubSeq(s, 1, IF Len(s) < n THEN Len(s) ELSE n)

_create_search_terms(ss) ==
    LET single == AllSkillTerms(Slice(ss, 5))
        combined == IF Len(ss) >= 2
                    THEN <<Join(Slice(ss, 3)) \o <<" ">> \o internship_keywords[2]>>
                    ELSE <<>>
    IN  Slice(single \o combined, 8)

_filter_internships(jobs) ==
    SelectSeq(jobs, LAMBDA job :
        LET title == lower(str(job.title))
            description == lower(str(job.description))
            is_internship ==
                \E k \in 1..Len(internship_keywords) :
                    \/ IsSubstr(internship_keywords[k], title)
                    \/ IsSubstr(internship_keywords[k], description)
            is_not_senior == ~ \E w \in senior_words : IsSubstr(w, title)
        IN  is_internship /\ is_not_senior)

\* What scrape_jobs does for one search term: it raises, or it returns jobs
Raises == [raises |-> TRUE]

Returns(jobs) == [raises |-> FALSE, jobs |-> jobs]

\* Variant of the loop body whose except clause leaves the loop
scrape_iteration_break(all, response) ==
    IF response.raises
    THEN [all_internships |-> all, goto |-> "after_loop"]
    ELSE [all_internships |-> all \o _filter_internships(response.jobs),
          goto |-> "loop"]

\* One iteration of the loop of scrape_internships: the new all_internships
\* and where control goes next
scrape_iteration(all, response) ==
    IF response.raises
    THEN [all_internships |-> all, goto |-> "loop"]
    ELSE [all_internships |-> all \o _filter_internships(response.jobs),
          goto |-> "loop"]

\* scrape_internships after the loop
scrape_result(all, user_skills) ==
    IF all = <<>> THEN EmptyFrame
    ELSE drop_duplicates(_clean_and_enhance_data(all, user_skills))

----------------------------------------------------------------------------
(* app.main running scrape_internships and then filter_and_rank: one action
   per iteration of the loop over the search terms, one for the rest of
   scrape_internships, one for the rest of main. *)

Python == <<"P","y","t","h","o","n">>

SQL == <<"S","Q","L">>

UrlB == <<"h","t","t","p",":","/","/","b">>

Remote == <<"R","e","m","o","t","e">>

RawIntern ==
    [title |-> Txt(PythonIntern), company |-> Txt(Google),
     location |-> Txt(Remote), description |-> Txt(<<"$","1","5"," ","p","e","r"," ","h","o","u","r">>),
     job_url |-> Txt(Url), date_posted |-> Num(1)]

\* The same title, company and location once cleaned, from another query
RawInternAgain ==
    [title |-> Txt(<<" ">> \o PythonIntern), company |-> Txt(Google),
     location |-> Txt(Remote \o <<" ">>), description |-> Txt(<<"$","3",",","0","0","0"," ","p","e","r"," ","m","o","n","t","h">>),
     job_url |-> Txt(UrlB), date_posted |-> Num(2)]

RawBare ==
    [title |-> Txt(DataIntern), company |-> NaN, location |-> NaN,
     description |-> NaN, job_url |-> NaN, date_posted |-> NaN]

RawSenior ==
    [title |-> Txt(<<"S","e","n","i","o","r"," ","P","y","t","h","o","n"," ","I","n","t","e","r","n">>), company |-> Txt(Acme),
     location |-> Txt(Remote), description |-> Txt(<<"$","3",",","0","0","0"," ","p","e","r"," ","m","o","n","t","h">>),
     job_url |-> Txt(Url), date_posted |-> Num(1)]

Responses ==
    {Raises, Returns(<<>>), Returns(<<RawIntern, RawSenior>>),
     Returns(<<RawInternAgain, RawBare>>)}

ScrapeSkills == {<<Python>>, <<Python, SQL>>}

\* The stipend in tenths and the relevance in tenths, as the filter model
\* holds them; both conversions round down, which keeps the outcome of
\* stipend >= min_stipend (min_stipend a whole number of tenths) and of
\* relevance_score >= 1.0
ToFilterUnits(f) ==
    LET conv(r) == [r EXCEPT
                      !.stipend = Num((10 * @.v.n) \div @.v.d),
                      !.relevance_score = Num(@.v \div 10)]
        RECURSIVE Conv(_)
        Conv(rows) == IF rows = <<>> THEN <<>>
                      ELSE <<conv(Head(rows))>> \o Conv(Tail(rows))
    IN  withRows(f, Conv(f.rows))

\* The inputs of main: a minimum stipend of 250 (in tenths), the default
\* maximum age and the default number of results
MainMinStipend == 2500

MainDaysOld == 7

MainNumResults == 25

ScrapeInit ==
    /\ pc = "loop"
    /\ frames = <<>>
    /\ internships = 1
    /\ min_stipend = MainMinStipend
    /\ max_days_old = MainDaysOld
    /\ top_n = MainNumResults
    /\ result = 0
    /\ filtered = 0
    /\ trace = <<>>
    /\ prev = 0
    /\ cur = 0
    /\ ncalls = 0
    /\ filter_engine = [weights |-> weights]
    /\ skills \in ScrapeSkills
    /\ queried = <<>>
    /\ outcomes = <<>>
    /\ all_internships = <<>>
    /\ scraped = EmptyFrame
    /\ shown = "nothing"

\* One iteration of the for loop of scrape_internships
ScrapeJobs ==
    /\ pc = "loop"
    /\ Len(queried) < Len(_create_search_terms(skills))
    /\ \E response \in Responses :
          LET it == scrape_iteration(all_internships, response)
          IN  /\ all_internships' = it.all_internships
              /\ outcomes' = Append(outcomes, response)
              /\ pc' = it.goto
    /\ queried' = Append(queried, _create_search_terms(skills)[Len(queried) + 1])
    /\ UNCHANGED <<filterVars, min_stipend, max_days_old, filter_engine,
                   skills, scraped, shown>>

\* scrape_internships from the end of the loop to its return
ScrapeReturn ==
    /\ \/ pc = "after_loop"
       \/ pc = "loop" /\ Len(queried) = Len(_create_search_terms(skills))
    /\ scraped' = scrape_result(all_internships, skills)
    /\ pc' = "returned"
    /\ UNCHANGED <<filterVars, min_stipend, max_days_old, filter_engine,
                   skills, queried, outcomes, all_internships, shown>>

\* main after scrape_internships has returned
MainDisplay ==
    /\ pc = "returned"
    /\ IF empty(scraped)
       THEN /\ shown' = "no_internships_found"
            /\ UNCHANGED <<frames, result, filtered, trace>>
       ELSE \E o \in filter_and_rank(<<ToFilterUnits(scraped)>>, internships,
                                     min_stipend, max_days_old, top_n) :
               /\ frames' = o.heap
               /\ result' = o.result
               /\ filtered' = o.filtered
               /\ trace' = o.trace
               /\ shown' = IF empty(o.heap[o.result])
                           THEN "no_match" ELSE "results"
    /\ pc' = "shown"
    /\ UNCHANGED <<internships, top_n, prev, cur, ncalls, min_stipend,
                   max_days_old, filter_engine, skills, queried, outcomes,
                   all_internships, scraped>>

ScrapeNext == ScrapeJobs \/ ScrapeReturn \/ MainDisplay

ScrapeSpec == ScrapeInit /\ [][ScrapeNext]_vars

----------------------------------------------------------------------------
(* _clean_and_enhance_data applied to one scraped job *)

Data == <<"d","a","t","a">>

EnrichTitles ==
    {Txt(PythonIntern), Txt(<<"D","a","t","a"," ","I","n","t","e","r","n","s","h","i","p"," ","$","1","5","/","h","r">>), Txt(<<"S","Q","L"," ","D","e","v","e","l","o","p","e","r">>), NaN}

EnrichDescriptions ==
    {Txt(<<"$","2","0"," ","p","e","r"," ","h","o","u","r">>), Txt(<<"$","3",",","0","0","0"," ","p","e","r"," ","m","o","n","t","h">>), Txt(<<"p","a","y","s"," ","2","5","/","h","r">>), Txt(<<"1","5","0","0"," ","m","o","n","t","h","l","y"," ","s","t","i","p","e","n","d">>),
     Txt(<<"g","r","e","a","t"," ","r","e","m","o","t","e"," ","r","o","l","e"," ","$","5","0","0">>), Txt(<<"$","5","0","0"," ","s","t","i","p","e","n","d">>), Txt(<<"n","o"," ","p","a","y"," ","i","n","f","o">>), Txt(<<"$","2","0"," ","p","e","r"," ","h","o","u","r",","," ","3"," ","m","o","n","t","h","s">>), Txt(<<"c","o","m","p","e","t","i","t","i","v","e"," ","p","a","y"," ","$","2",",","5","0","0",".","5","0">>), NaN}

EnrichSkills == {<<Python>>, <<Python, SQL>>, <<Python, SQL, Data>>}

EnrichJobs ==
    {[title |-> t, company |-> c, location |-> Txt(Remote), description |-> d,
      job_url |-> Txt(Url), date_posted |-> Num(1)] :
        t \in EnrichTitles, c \in {Txt(Google), NaN}, d \in EnrichDescriptions}

EnrichInit ==
    /\ pc = "raw"
    /\ frames = <<>>
    /\ internships = 1
    /\ min_stipend = MainMinStipend
    /\ max_days_old = MainDaysOld
    /\ top_n = MainNumResults
    /\ result = 0
    /\ filtered = 0
    /\ trace = <<>>
    /\ prev = 0
    /\ cur = 0
    /\ ncalls = 0
    /\ filter_engine = [weights |-> weights]
    /\ skills \in EnrichSkills
    /\ queried = <<>>
    /\ outcomes = <<>>
    /\ \E job \in EnrichJobs : all_internships = <<job>>
    /\ scraped = EmptyFrame
    /\ shown = "nothing"

CleanAndEnhance ==
    /\ pc = "raw"
    /\ scraped' = _clean_and_enhance_data(all_internships, skills)
    /\ pc' = "enhanced"
    /\ UNCHANGED <<filterVars, min_stipend, max_days_old, filter_engine,
                   skills, queried, outcomes, all_internships, shown>>

EnrichNext == CleanAndEnhance

EnrichSpec == EnrichInit /\ [][EnrichNext]_vars

----------------------------------------------------------------------------
(* Properties *)

Ranked == pc = "ranked"

ResultRows == frames[result].rows

InputRows == frames[internships].rows

\* The rows _apply_filters returned in the latest call
Retained == trace[Len(trace)]

NonEmptyText(c) == ~isna(c) /\ c.v # <<>>

HasApplyUrl(r) == ~isna(r.apply_url) /\ strip(r.apply_url.v) # <<>>

InUnit(x) == QLe(Zero, x) /\ QLe(x, One)

\* C1 as stated: for any integer top_n the collection returned by
\* filter_and_rank has at most top_n rows.
C1_AtMostTopN_AnyInteger ==
    Ranked => Len(ResultRows) <= top_n

\* C1, amended: for every non-negative top_n the collection returned by
\* filter_and_rank has at most top_n rows.
C1_AtMostTopN ==
    (Ranked /\ top_n >= 0) => Len(ResultRows) <= top_n

C1_Witness ==
    /\ Ranked
    /\ top_n = 1
    /\ filtered # 0
    /\ Len(frames[filtered].rows) = 2
    /\ Len(ResultRows) = 1

\* C2: in the output of filter_and_rank, rows of equal final_score are in
\* the relative order they had in the filtered collection (filtering keeps
\* the input order, so that order is the order of the index labels).
C2_StableTieBreak ==
    Ranked =>
        \A i, j \in 1..Len(ResultRows) :
            (i < j /\ ResultRows[i].final_score = ResultRows[j].final_score)
                => ResultRows[i].index < ResultRows[j].index

\* C3: the output of filter_and_rank is sorted non-increasing by
\* final_score.
C3_SortedNonIncreasing ==
    Ranked =>
        \A i \in 1..(Len(ResultRows) - 1) :
            ResultRows[i].final_score >= ResultRows[i + 1].final_score

C3_Witness ==
    /\ Ranked
    /\ Len(ResultRows) = 2
    /\ ResultRows[1].final_score > ResultRows[2].final_score
    /\ ResultRows[1].index > ResultRows[2].index

\* C4: every posting _apply_filters retains has a non-empty title, a
\* non-empty company and a non-empty apply_url.
C4_RetainedHaveRequiredFields ==
    trace # <<>> =>
        \A i \in 1..Len(Retained) :
            /\ NonEmptyText(Retained[i].title)
            /\ NonEmptyText(Retained[i].company)
            /\ NonEmptyText(Retained[i].apply_url)

\* C5: the age step of _apply_filters never removes a posting whose
\* days_old is 999, and removes nothing when max_days_old >= 999.
C5_UnknownAgeKept ==
    trace # <<>> =>
        /\ \A i \in 1..Len(trace[2]) :
              trace[2][i].days_old = Num(UNKNOWN)
                  => \E j \in 1..Len(trace[3]) : trace[3][j] = trace[2][i]
        /\ max_days_old >= UNKNOWN => trace[3] = trace[2]

C5_Witness ==
    /\ trace # <<>>
    /\ max_days_old < UNKNOWN
    /\ \E i \in 1..Len(trace[2]) : trace[2][i].days_old = Num(UNKNOWN)
    /\ Len(trace[3]) < Len(trace[2])

\* C6: applying _apply_filters to its own output with the same parameters
\* returns that output unchanged (same postings, same order).
C6_FilterIdempotent ==
    ncalls >= 2 => frames[cur] = frames[prev]

C6_Witness ==
    /\ ncalls = 2
    /\ Len(frames[cur].rows) = 1
    /\ Len(InputRows) = 2

\* C7: a posting whose apply_url is missing, empty or only whitespace is
\* in the output neither of _apply_filters nor of filter_and_rank.
C7_NoPostingWithoutApplyUrl ==
    /\ trace # <<>> => \A i \in 1..Len(Retained) : HasApplyUrl(Retained[i])
    /\ Ranked => \A i \in 1..Len(ResultRows) : HasApplyUrl(ResultRows[i])

C7_Witness ==
    /\ Ranked
    /\ \E i \in 1..Len(InputRows) : InputRows[i].apply_url = Txt(<<" ">>)
    /\ Len(ResultRows) = 1

\* The ranges C8 assumes of the input
InputInRange ==
    \A i \in 1..Len(InputRows) :
        LET r == InputRows[i]
        IN  /\ isna(r.relevance_score)
               \/ (0 <= r.relevance_score.v /\ r.relevance_score.v <= 100)
            /\ isna(r.stipend) \/ r.stipend.v >= 0
            /\ isna(r.days_old) \/ r.days_old.v >= 0

\* C8: for inputs in range, the four sub-scores and final_score of every
\* row returned by filter_and_rank lie in [0,1].
C8_ScoresInUnitInterval ==
    (Ranked /\ InputInRange) =>
        \A i \in 1..Len(ResultRows) :
            LET r == ResultRows[i]
            IN  /\ InUnit(r.relevance_normalized)
                /\ InUnit(r.stipend_normalized)
                /\ InUnit(r.recency_normalized)
                /\ InUnit(r.company_reputation_normalized)
                /\ 0 <= r.final_score /\ r.final_score <= 100

C8_Witness ==
    /\ Ranked
    /\ InputInRange
    /\ \E i \in 1..Len(ResultRows) :
          /\ ResultRows[i].days_old = Num(45)
          /\ ResultRows[i].recency_normalized = Zero

\* The call of the worked example
ExampleCall ==
    /\ Ranked
    /\ InputRows = <<[index |-> 0] @@ GooglePosting,
                     [index |-> 1] @@ StartupPosting>>
    /\ min_stipend = 0
    /\ max_days_old = 7
    /\ top_n = 5

ExampleRanking ==
    /\ Len(ResultRows) = 2
    /\ ResultRows[1].index = 0
    /\ ResultRows[2].index = 1
    /\ ResultRows[1].company_reputation_normalized = One
    /\ ResultRows[2].company_reputation_normalized = Q(1, 2)

\* C9 as stated: in the worked example both postings are retained, the
\* reputation sub-scores are 1.0 and 0.5, Google is first, and the final
\* scores are about 0.903 and 0.625 (0.90 and 0.62 or 0.63 in hundredths).
C9_Example_AsStated ==
    ExampleCall =>
        /\ ExampleRanking
        /\ ResultRows[1].final_score = 90
        /\ ResultRows[2].final_score \in {62, 63}

\* C9, amended: in the worked example both postings are retained, the
\* reputation sub-scores are 1.0 and 0.5, Google is first, and the final
\* scores are 0.93 and 0.70.
C9_Example ==
    ExampleCall =>
        /\ ExampleRanking
        /\ ResultRows[1].final_score = 93
        /\ ResultRows[2].final_score = 70

C9_Witness == ExampleCall

\* C10: a call of filter_and_rank leaves the caller's collection as it
\* was: same rows, same columns, same values, no score column.
C10_InputUnchanged ==
    [][FilterAndRank => frames'[internships] = frames[internships]]_vars

C10_Witness ==
    /\ Ranked
    /\ Len(ResultRows) = 1
    /\ Len(InputRows) = 2
    /\ ScoreColumns \subseteq frames[result].columns
    /\ frames[internships].columns = BaseColumns

\* A posting with each missing numeric field replaced by its default:
\* compensation 0, relevance 0, age UNKNOWN
Defaulted(r) ==
    [r EXCEPT !.stipend = fillna(@, 0),
              !.relevance_score = fillna(@, 0),
              !.days_old = fillna(@, UNKNOWN)]

IndexLabels(rows) == [i \in 1..Len(rows) |-> rows[i].index]

\* C11: _apply_filters treats a missing compensation as 0, a missing
\* relevance as 0 and a missing age as UNKNOWN: it retains the postings it
\* would retain had the missing fields held these defaults; an empty input
\* gives an empty output.
C11_MissingFieldsAsDefaults ==
    /\ trace # <<>> =>
          LET defaulted == [i \in 1..Len(trace[1]) |-> Defaulted(trace[1][i])]
              stages == FilterStages(defaulted, min_stipend, max_days_old)
          IN  IndexLabels(Retained) = IndexLabels(stages[Len(stages)])
    /\ (Ranked /\ InputRows = <<>>) => ResultRows = <<>>
    /\ (pc = "filtered" /\ InputRows = <<>>) => frames[cur].rows = <<>>

\* 0.4 relevance + 0.3 stipend + 0.2 recency + 0.1 reputation of a row
WeightedSum(r) ==
    QAdd(QAdd(QMul(Q(4, 10), r.relevance_normalized),
              QMul(Q(3, 10), r.stipend_normalized)),
         QAdd(QMul(Q(2, 10), r.recency_normalized),
              QMul(Q(1, 10), r.company_reputation_normalized)))

\* C15: final_score of every ranked row is 0.4 relevance_normalized +
\* 0.3 stipend_normalized + 0.2 recency_normalized + 0.1
\* company_reputation_normalized rounded to 2 decimals; the weights are
\* those set at construction in every state, and they sum to 1.
C15_FinalScoreIsWeightedSum ==
    /\ filter_engine.weights =
          [relevance_score |-> Q(4, 10), stipend |-> Q(3, 10),
           recency |-> Q(2, 10), company_reputation |-> Q(1, 10)]
    /\ QAdd(QAdd(filter_engine.weights.relevance_score,
                 filter_engine.weights.stipend),
            QAdd(filter_engine.weights.recency,
                 filter_engine.weights.company_reputation)) = One
    /\ Ranked =>
          \A i \in 1..Len(ResultRows) :
              ResultRows[i].final_score = round2(WeightedSum(ResultRows[i]))

C15_Witness ==
    /\ Ranked
    /\ \E i \in 1..Len(ResultRows) :
          /\ ResultRows[i].final_score = 93
          /\ WeightedSum(ResultRows[i]) = Q(14, 15)

\* The largest compensation among the rows, a missing one counting as 0
MaxCompensation(rows) ==
    LET S == {fillna(rows[i].stipend, 0).v : i \in 1..Len(rows)}
    IN  CHOOSE x \in S : \A y \in S : x >= y

C18_RecencyLinearDecay ==
    Ranked =>
        \A i \in 1..Len(ResultRows) :
            LET d   == ResultRows[i].days_old
                age == IF isna(d) THEN 30 ELSE IF d.v = UNKNOWN THEN 30 ELSE d.v
            IN  ResultRows[i].recency_normalized =
                   IF age >= 30 THEN Zero
                   ELSE IF age <= 0 THEN One
                   ELSE Q(30 - age, 30)

C18_Witness ==
    /\ Ranked
    /\ \E i \in 1..Len(ResultRows) :
          /\ isna(ResultRows[i].days_old)
          /\ ResultRows[i].recency_normalized = Zero
    /\ \E i \in 1..Len(ResultRows) :
          /\ ResultRows[i].days_old = Num(5)
          /\ ResultRows[i].recency_normalized = Q(25, 30)

----------------------------------------------------------------------------
(* Properties of scrape_internships and of main *)

search_terms == _create_search_terms(skills)

\* scrape_internships has just returned
Returned == pc = "returned"

Succeeded == {i \in 1..Len(outcomes) : ~outcomes[i].raises}

\* Every query raised
FetchFailed == outcomes # <<>> /\ Succeeded = {}

\* Every query returned, and none returned a job
FetchedNothing ==
    /\ outcomes # <<>>
    /\ \A i \in 1..Len(outcomes) :
          ~outcomes[i].raises /\ outcomes[i].jobs = <<>>

\* The internship postings of the queries from the i-th on that succeeded,
\* in the order of the queries
RECURSIVE MergedFrom(_)
MergedFrom(i) ==
    IF i > Len(outcomes) THEN <<>>
    ELSE (IF outcomes[i].raises THEN <<>>
          ELSE _filter_internships(outcomes[i].jobs))
         \o MergedFrom(i + 1)

\* C12: when every query raises, scrape_internships returns a value other
\* than the one it returns when every query succeeds with zero postings,
\* and main shows an outcome other than the one of that case and other
\* than the one of no posting matching the filter criteria.
C12_FetchFailureDistinguishable ==
    (pc = "shown" /\ FetchFailed) =>
        /\ scraped # scrape_result(<<>>, skills)
        /\ shown # "no_internships_found"
        /\ shown # "no_match"

\* C13: a query that raises neither ends scrape_internships nor its loop:
\* the search terms are queried in order, all of them before the function
\* returns, and the returned frame holds the (cleaned, deduplicated)
\* internship postings of exactly the queries that succeeded; it is empty
\* when none succeeded.
C13_FailedQueriesSkipped ==
    /\ pc \in {"loop", "after_loop", "returned", "shown"}
    /\ Len(queried) <= Len(search_terms)
    /\ queried = SubSeq(search_terms, 1, Len(queried))
    /\ Len(outcomes) = Len(queried)
    /\ Returned =>
          /\ queried = search_terms
          /\ outcomes # <<>>
          /\ LET cleaned == CleanRows(MergedFrom(1), 0, skills)
             IN  {DuplicateKey(scraped.rows[k]) : k \in 1..Len(scraped.rows)}
                    = {DuplicateKey(cleaned[k]) : k \in 1..Len(cleaned)}
          /\ Succeeded = {} => scraped = EmptyFrame

C13_Witness ==
    /\ Returned
    /\ Len(search_terms) = 7
    /\ outcomes[1].raises
    /\ outcomes[7].raises
    /\ \E i \in 2..6 : outcomes[i].raises
    /\ \E i \in 2..6 : ~outcomes[i].raises /\ outcomes[i].jobs # <<>>
    /\ ~empty(scraped)

\* C14: no two rows of the returned frame have the same title, company
\* and location, and the row retained for a key is the first posting with
\* that key in the merged order (search terms in order, postings in order
\* within a query).
C14_FirstOccurrenceKept ==
    Returned =>
        LET rows == scraped.rows
            merged == CleanRows(MergedFrom(1), 0, skills)
        IN  /\ \A i, j \in 1..Len(rows) :
                  DuplicateKey(rows[i]) = DuplicateKey(rows[j]) => i = j
            /\ \A i \in 1..Len(rows) :
                  LET m == rows[i].index + 1
                  IN  /\ m \in 1..Len(merged)
                      /\ rows[i] = merged[m]
                      /\ \A k \in 1..(m - 1) :
                            DuplicateKey(merged[k]) # DuplicateKey(rows[i])
            /\ \A k \in 1..Len(merged) :
                  \E i \in 1..Len(rows) :
                      DuplicateKey(rows[i]) = DuplicateKey(merged[k])
            /\ \A i, j \in 1..Len(rows) :
                  i < j => rows[i].index < rows[j].index

C14_Witness ==
    /\ Returned
    /\ Len(scraped.rows) = 2
    /\ Len(all_internships) >= 4
    /\ scraped.rows[1].apply_url = Txt(UrlB)
    /\ \E k \in 2..Len(all_internships) : all_internships[k].job_url = Txt(Url)

----------------------------------------------------------------------------
(* Properties of _extract_stipend and _calculate_relevance_score *)

Enhanced == pc = "enhanced"

\* The job handed to _extract_stipend and to _calculate_relevance_score
EnhancedJob ==
    [all_internships[1] EXCEPT !.title = CleanText(@, UnknownTitle),
                               !.company = CleanText(@, UnknownCompany)]

SalaryText ==
    lower(str(EnhancedJob.description)) \o <<" ">> \o lower(str(EnhancedJob.title))

\* The first numeric match: that of the first salary pattern that matches
FirstNumericMatch ==
    IF FirstMatch(1, SalaryText, 1) # <<>> THEN FirstMatch(1, SalaryText, 1)
    ELSE IF FirstMatch(2, SalaryText, 1) # <<>> THEN FirstMatch(2, SalaryText, 1)
    ELSE FirstMatch(3, SalaryText, 1)

QualifiedHourly ==
    \E u \in HourUnits : IsSubstr(u, lower(str(EnhancedJob.description)))

QualifiedMonthly ==
    \E u \in MonthUnits : IsSubstr(u, lower(str(EnhancedJob.description)))

\* C17: _extract_stipend returns 0 when no salary pattern matches, the
\* first numeric match times 160 when the description qualifies it as
\* hourly, and the first numeric match itself when the description
\* qualifies it as monthly.
C17_StipendMonthlyEquivalent ==
    Enhanced =>
        LET stipend == scraped.rows[1].stipend.v
            amount == ParseAmount(FirstNumericMatch)
        IN  /\ FirstNumericMatch = <<>> => stipend = Zero
            /\ (FirstNumericMatch # <<>> /\ QualifiedHourly /\ ~QualifiedMonthly)
                  => stipend = QMul(amount, Q(160, 1))
            /\ (FirstNumericMatch # <<>> /\ QualifiedMonthly /\ ~QualifiedHourly)
                  => stipend = amount

SkillsIn(text) ==
    {i \in 1..Len(skills) : IsSubstr(lower(skills[i]), text)}

KeywordsIn(text) ==
    {k \in 1..Len(internship_keywords) : IsSubstr(internship_keywords[k], text)}

\* base + title bonus + keyword bonus, before the cap
UncappedRelevance ==
    LET title == lower(str(EnhancedJob.title))
        text == title \o <<" ">> \o lower(str(EnhancedJob.description))
                      \o <<" ">> \o lower(str(EnhancedJob.company))
    IN  QAdd(QAdd(Q(10 * Cardinality(SkillsIn(text)), Len(skills)),
                  Q(Cardinality(SkillsIn(title)), 1)),
             Q(Cardinality(KeywordsIn(title)), 2))

\* C19: for a non-empty skill list the relevance score is
\* min(10, matches/total*10 + 1 per skill in the title + 0.5 per internship
\* keyword in the title) rounded to two decimals, and lies in [0, 10].
C19_RelevanceScoreFormula ==
    Enhanced =>
        LET score == scraped.rows[1].relevance_score.v
        IN  /\ score = round2(IF QLe(UncappedRelevance, Q(10, 1))
                              THEN UncappedRelevance ELSE Q(10, 1))
            /\ score >= 0
            /\ score <= 1000

C19_Witness ==
    /\ Enhanced
    /\ Len(skills) = 1
    /\ UncappedRelevance = Q(23, 2)
    /\ scraped.rows[1].relevance_score = Num(1000)

====
